---- MODULE Spec2Model ----
(***************************************************************************)
(* LTTng callstack event context (lttng-context-callstack.c).              *)
(*                                                                         *)
(* The model covers the attachment path (init_type, field_data_create,     *)
(* __lttng_add_callstack_generic, lttng_add_callstack_to_ctx,              *)
(* lttng_callstack_destroy) and the hot path (stack_trace_context,         *)
(* lttng_callstack_get_size, lttng_callstack_record) running on several    *)
(* CPUs with nested events.                                                *)
(*                                                                         *)
(* Machine words are kept as two's-complement integers: ULONG_MAX, the     *)
(* all-ones word, is -1, and every frame address is a small non-negative   *)
(* number.  The ring-buffer payload is a sequence of bytes.                *)
(***************************************************************************)
EXTENDS Integers, Sequences, FiniteSets, TLC

\* ---------------------------------------------------------------- bounds
\* Number of possible CPUs.
NrCpus == 2
\* Events carrying a callstack field that are raised in one behaviour.
MaxEvents == 2
\* Starting offsets of the field inside the event record: 0 .. MaxOffset.
MaxOffset == 1
\* Short call chains the unwinder finds: 0 .. MaxFrames frames.
MaxFrames == 1
\* How far past RING_BUFFER_MAX_NESTING the ring-buffer nesting counter may
\* run (the case the safety net of stack_trace_context is written for).
NestingOverrun == 1

\* ------------------------------------------------------ program constants
MAX_ENTRIES == 128
RING_BUFFER_MAX_NESTING == 4
CALLSTACK_KERNEL == 0
CALLSTACK_USER == 1
NR_CALLSTACK_MODES == 2
LTTNG_KERNEL_CONTEXT_CALLSTACK_KERNEL == 17
LTTNG_KERNEL_CONTEXT_CALLSTACK_USER == 18
LTTNG_KERNEL_CONTEXT_PID == 0
EINVAL == 22
ENOMEM == 12
EEXIST == 17
ULONG_MAX == -1
sizeof_unsigned_int == 4
sizeof_unsigned_long == 8

NULL == 0
CPUs == 0 .. (NrCpus - 1)
Modes == CALLSTACK_KERNEL .. (NR_CALLSTACK_MODES - 1)
Offsets == 0 .. MaxOffset
StackDepths == (0 .. MaxFrames) \cup {MAX_ENTRIES - 1, MAX_ENTRIES}
ContextTypes ==
    {LTTNG_KERNEL_CONTEXT_CALLSTACK_KERNEL, LTTNG_KERNEL_CONTEXT_CALLSTACK_USER,
     LTTNG_KERNEL_CONTEXT_PID}
MaxNesting == RING_BUFFER_MAX_NESTING + NestingOverrun

VARIABLES
    CONFIG_X86,               \* build option: the user unwinder is offered
    session,                  \* "setup", "attaching", "active" or "destroyed"
    save_func,                \* cs_types[mode].save_func: bound (TRUE) or NULL
    ctx_fields,               \* the context set: its fields, in order
    field_data,               \* live struct field_data objects, by address
    percpu_cs,                \* live per-CPU capture sets, by address
    last_call,                \* the last control call and its return value
    callstack_user_nesting,   \* per-CPU guard
    lib_ring_buffer_nesting,  \* per-CPU ring-buffer nesting counter
    inflight,                 \* per-CPU stack of in-flight callstack events
    nr_events                 \* callstack events raised so far

vars ==
    <<CONFIG_X86, session, save_func, ctx_fields, field_data, percpu_cs, last_call,
      callstack_user_nesting, lib_ring_buffer_nesting, inflight, nr_events>>

ctlvars == <<CONFIG_X86, save_func, ctx_fields, last_call>>
hotvars == <<callstack_user_nesting, lib_ring_buffer_nesting, inflight, nr_events>>

\* ------------------------------------------------------------- cs_types[]
cs_types_name(mode) ==
    IF mode = CALLSTACK_KERNEL THEN "callstack_kernel" ELSE "callstack_user"

\* An init_type that looks the symbol up on every call.
init_type_relookup(sf, mode, found) ==
    IF ~found THEN [ret |-> 0 - EINVAL, save_func |-> [sf EXCEPT ![mode] = FALSE]]
    ELSE [ret |-> 0, save_func |-> [sf EXCEPT ![mode] = TRUE]]

\* An init_type that goes on when the symbol lookup failed.
init_type_ignore_lookup(sf, mode, found) ==
    IF sf[mode] THEN [ret |-> 0, save_func |-> sf]
    ELSE [ret |-> 0, save_func |-> [sf EXCEPT ![mode] = found]]

\* init_type(): bind the backend of `mode` once; `found` is the outcome of
\* kallsyms_lookup_funcptr().
init_type(sf, mode, found) ==
    IF sf[mode] THEN [ret |-> 0, save_func |-> sf]
    ELSE IF ~found THEN [ret |-> 0 - EINVAL, save_func |-> sf]
    ELSE [ret |-> 0, save_func |-> [sf EXCEPT ![mode] = TRUE]]

\* --------------------------------------------------------- context set
\* A field as lttng_append_context() hands it out: zeroed.
EmptyField == [name |-> "", priv |-> NULL, hooks |-> FALSE, synced |-> FALSE]

lttng_append_context(fields) == Append(fields, EmptyField)

\* Fields whose name is still NULL are skipped.
lttng_find_context(fields, name) ==
    \E i \in 1 .. Len(fields) : fields[i].name # "" /\ fields[i].name = name

\* Drops the last field of the set.
lttng_remove_context_field(fields) == SubSeq(fields, 1, Len(fields) - 1)

\* ------------------------------------------------------- capture sets
\* unsigned long entries[MAX_ENTRIES] is kept as its written prefix: the
\* words past it still read 0, as alloc_percpu() left them.
ZeroEntries == <<>>

Entry(slot, k) == IF k < Len(slot.entries) THEN slot.entries[k + 1] ELSE 0

\* A dispatch slot after alloc_percpu() (zeroed memory).
ZeroSlot == [nr_entries |-> 0, max_entries |-> 0, entries |-> ZeroEntries, wired |-> FALSE]

\* A loop body that wires the entries pointer and leaves max_entries zeroed.
WireSlot_nomax(slot) == [slot EXCEPT !.wired = TRUE]

\* The loop body of field_data_create(): wire one slot.
WireSlot(slot) == [slot EXCEPT !.max_entries = MAX_ENTRIES, !.wired = TRUE]

NewCaptureSet ==
    [cpu \in CPUs |-> [i \in 0 .. (RING_BUFFER_MAX_NESTING - 1) |-> WireSlot(ZeroSlot)]]

FreshAddr(heap) == CHOOSE a \in 1 .. (Cardinality(DOMAIN heap) + 1) :
    /\ a \notin DOMAIN heap
    /\ \A b \in 1 .. (a - 1) : b \in DOMAIN heap

Extend(heap, a, v) == [x \in DOMAIN heap \cup {a} |-> IF x = a THEN v ELSE heap[x]]
Release(heap, a) == [x \in DOMAIN heap \ {a} |-> heap[x]]

\* field_data_free(): NULL is accepted; free_percpu(NULL) is a no-op.
field_data_free(fd, pcs, fdata) ==
    IF fdata = NULL THEN [field_data |-> fd, percpu_cs |-> pcs]
    ELSE [field_data |-> Release(fd, fdata),
          percpu_cs |-> IF fd[fdata].cs_percpu = NULL THEN pcs
                        ELSE Release(pcs, fd[fdata].cs_percpu)]

\* A field_data_create whose error_alloc label does not free fdata.
field_data_create_leak(fd, pcs, mode, kz_ok, pc_ok) ==
    IF ~kz_ok THEN [fdata |-> NULL, field_data |-> fd, percpu_cs |-> pcs]
    ELSE LET fdata == FreshAddr(fd)
             fd1 == Extend(fd, fdata, [cs_percpu |-> NULL, mode |-> CALLSTACK_KERNEL])
         IN IF ~pc_ok
            THEN [fdata |-> NULL, field_data |-> fd1, percpu_cs |-> pcs]
            ELSE LET cs_set == FreshAddr(pcs)
                 IN [fdata |-> fdata,
                     field_data |-> [fd1 EXCEPT ![fdata] = [cs_percpu |-> cs_set, mode |-> mode]],
                     percpu_cs |-> Extend(pcs, cs_set, NewCaptureSet)]

\* field_data_create(): kz_ok and pc_ok are the outcomes of kzalloc() and
\* alloc_percpu().
field_data_create(fd, pcs, mode, kz_ok, pc_ok) ==
    IF ~kz_ok THEN [fdata |-> NULL, field_data |-> fd, percpu_cs |-> pcs]
    ELSE LET fdata == FreshAddr(fd)
             fd1 == Extend(fd, fdata, [cs_percpu |-> NULL, mode |-> CALLSTACK_KERNEL])
         IN IF ~pc_ok
            THEN LET f == field_data_free(fd1, pcs, fdata)
                 IN [fdata |-> NULL, field_data |-> f.field_data, percpu_cs |-> f.percpu_cs]
            ELSE LET cs_set == FreshAddr(pcs)
                 IN [fdata |-> fdata,
                     field_data |-> [fd1 EXCEPT ![fdata] = [cs_percpu |-> cs_set, mode |-> mode]],
                     percpu_cs |-> Extend(pcs, cs_set, NewCaptureSet)]

\* An error path that leaves the appended field in the set.
error_find_keep(appended) == appended

\* The error_find label: the field appended by this call is removed.
error_find(appended) == lttng_remove_context_field(appended)

\* An attach that returns without the page-table synchronisation.
wrapper_vmalloc_sync_none(fields) == fields

\* wrapper_vmalloc_sync_all(): the mappings of the memory allocated so far,
\* the per-CPU areas of every field of the set among them, are brought to
\* the page tables of every CPU.
wrapper_vmalloc_sync_all(fields) ==
    [i \in 1 .. Len(fields) |-> [fields[i] EXCEPT !.synced = TRUE]]

\* __lttng_add_callstack_generic() on the state st = [save_func, ctx_fields,
\* field_data, percpu_cs]; env gives the outcome of every call that can fail.
\* st is the state at return, presync the state the successful call has
\* reached when it calls wrapper_vmalloc_sync_all().
lttng_add_callstack_generic(st, mode, env) ==
    LET it == init_type(st.save_func, mode, env.found)
        st1 == [st EXCEPT !.save_func = it.save_func]
        ctx_name == cs_types_name(mode)
    IN IF it.ret # 0 THEN [ret |-> it.ret, st |-> st1, presync |-> st1]
       ELSE IF ~env.append_ok THEN [ret |-> 0 - ENOMEM, st |-> st1, presync |-> st1]
       ELSE LET appended == lttng_append_context(st1.ctx_fields)
            IN IF lttng_find_context(appended, ctx_name)
               THEN LET e == [st1 EXCEPT !.ctx_fields = error_find(appended)]
                    IN [ret |-> 0 - EEXIST, st |-> e, presync |-> e]
               ELSE LET c == field_data_create(st1.field_data, st1.percpu_cs, mode,
                                               env.kz_ok, env.pc_ok)
                    IN IF c.fdata = NULL
                       THEN LET f == field_data_free(c.field_data, c.percpu_cs, c.fdata)
                                e == [st1 EXCEPT
                                        !.ctx_fields = error_find(appended),
                                        !.field_data = f.field_data,
                                        !.percpu_cs = f.percpu_cs]
                            IN [ret |-> 0 - ENOMEM, st |-> e, presync |-> e]
                       ELSE LET populated ==
                                    [appended EXCEPT ![Len(appended)] =
                                        [name |-> ctx_name, priv |-> c.fdata,
                                         hooks |-> TRUE, synced |-> FALSE]]
                                installed ==
                                    [st1 EXCEPT !.ctx_fields = populated,
                                                !.field_data = c.field_data,
                                                !.percpu_cs = c.percpu_cs]
                            IN [ret |-> 0,
                                st |-> [installed EXCEPT !.ctx_fields =
                                          wrapper_vmalloc_sync_all(populated)],
                                presync |-> installed]

\* lttng_add_callstack_to_ctx(): the switch on the type selector.
lttng_add_callstack_to_ctx(st, type, x86, env) ==
    IF type = LTTNG_KERNEL_CONTEXT_CALLSTACK_KERNEL
    THEN lttng_add_callstack_generic(st, CALLSTACK_KERNEL, env)
    ELSE IF x86 /\ type = LTTNG_KERNEL_CONTEXT_CALLSTACK_USER
    THEN lttng_add_callstack_generic(st, CALLSTACK_USER, env)
    ELSE [ret |-> 0 - EINVAL, st |-> st, presync |-> st]

\* What the calls that can fail do during one attach: the symbol lookup,
\* the allocation in lttng_append_context(), kzalloc() and alloc_percpu().
Envs == [found : BOOLEAN, append_ok : BOOLEAN, kz_ok : BOOLEAN, pc_ok : BOOLEAN]

AllSucceed == [found |-> TRUE, append_ok |-> TRUE, kz_ok |-> TRUE, pc_ok |-> TRUE]

CtlState ==
    [save_func |-> save_func, ctx_fields |-> ctx_fields,
     field_data |-> field_data, percpu_cs |-> percpu_cs]

\* ------------------------------------------------------------ hot path
\* lib_ring_buffer_align(): bytes of padding that bring offset to a multiple
\* of align (a power of two).
lib_ring_buffer_align(offset, align) == (align - (offset % align)) % align

\* lttng_alignof(): natural alignment of a type of the given size.
lttng_alignof(size) == size

\* The stack_trace pointer stack_trace_context() returns: the per-CPU area
\* cs of CPU cpu, slot dispatch[idx].  cs = NULL stands for the NULL pointer.
NullTrace == [cs |-> NULL, cpu |-> 0, idx |-> 0]

\* A selection that does not consult the guard.
stack_trace_context_noguard(priv, cpu) ==
    LET buffer_nesting == lib_ring_buffer_nesting[cpu] - 1
    IN IF buffer_nesting >= RING_BUFFER_MAX_NESTING THEN NullTrace
       ELSE [cs |-> field_data[priv].cs_percpu, cpu |-> cpu, idx |-> buffer_nesting]

\* A selection that always hands out the first slot of the CPU.
stack_trace_context_slot0(priv, cpu) ==
    LET cs_user_nesting == callstack_user_nesting[cpu]
        buffer_nesting == lib_ring_buffer_nesting[cpu] - 1
    IN IF field_data[priv].mode = CALLSTACK_USER /\ cs_user_nesting >= 1 THEN NullTrace
       ELSE IF buffer_nesting >= RING_BUFFER_MAX_NESTING THEN NullTrace
       ELSE [cs |-> field_data[priv].cs_percpu, cpu |-> cpu, idx |-> 0]

\* A selection that takes the capture set of the first CPU, not of ctx->cpu.
stack_trace_context_cpu0(priv, cpu) ==
    LET cs_user_nesting == callstack_user_nesting[cpu]
        buffer_nesting == lib_ring_buffer_nesting[cpu] - 1
    IN IF field_data[priv].mode = CALLSTACK_USER /\ cs_user_nesting >= 1 THEN NullTrace
       ELSE IF buffer_nesting >= RING_BUFFER_MAX_NESTING THEN NullTrace
       ELSE [cs |-> field_data[priv].cs_percpu, cpu |-> 0, idx |-> buffer_nesting]

\* A safety net that is off by one at the top.
stack_trace_context_offbyone(priv, cpu) ==
    LET cs_user_nesting == callstack_user_nesting[cpu]
        buffer_nesting == lib_ring_buffer_nesting[cpu] - 1
    IN IF field_data[priv].mode = CALLSTACK_USER /\ cs_user_nesting >= 1 THEN NullTrace
       ELSE IF buffer_nesting > RING_BUFFER_MAX_NESTING THEN NullTrace
       ELSE [cs |-> field_data[priv].cs_percpu, cpu |-> cpu, idx |-> buffer_nesting]

\* A safety net that already refuses the last slot.
stack_trace_context_strict(priv, cpu) ==
    LET cs_user_nesting == callstack_user_nesting[cpu]
        buffer_nesting == lib_ring_buffer_nesting[cpu] - 1
    IN IF field_data[priv].mode = CALLSTACK_USER /\ cs_user_nesting >= 1 THEN NullTrace
       ELSE IF buffer_nesting >= RING_BUFFER_MAX_NESTING - 1 THEN NullTrace
       ELSE [cs |-> field_data[priv].cs_percpu, cpu |-> cpu, idx |-> buffer_nesting]

\* A selection that lets the guard stop fields of either mode.
stack_trace_context_anymode(priv, cpu) ==
    LET cs_user_nesting == callstack_user_nesting[cpu]
        buffer_nesting == lib_ring_buffer_nesting[cpu] - 1
    IN IF cs_user_nesting >= 1 THEN NullTrace
       ELSE IF buffer_nesting >= RING_BUFFER_MAX_NESTING THEN NullTrace
       ELSE [cs |-> field_data[priv].cs_percpu, cpu |-> cpu, idx |-> buffer_nesting]

stack_trace_context(priv, cpu) ==
    LET cs_user_nesting == callstack_user_nesting[cpu]
        buffer_nesting == lib_ring_buffer_nesting[cpu] - 1
    IN IF field_data[priv].mode = CALLSTACK_USER /\ cs_user_nesting >= 1 THEN NullTrace
       ELSE IF buffer_nesting >= RING_BUFFER_MAX_NESTING THEN NullTrace
       ELSE [cs |-> field_data[priv].cs_percpu, cpu |-> cpu, idx |-> buffer_nesting]

Deref(trace) == percpu_cs[trace.cs][trace.cpu][trace.idx]

Store(pcs, trace, slot) == [pcs EXCEPT ![trace.cs][trace.cpu][trace.idx] = slot]

\* The skip branch of lttng_callstack_get_size(): an empty sequence.
empty_sequence_size(offset) ==
    LET o1 == offset + lib_ring_buffer_align(offset, lttng_alignof(sizeof_unsigned_int))
        o2 == o1 + sizeof_unsigned_int
        o3 == o2 + lib_ring_buffer_align(o2, lttng_alignof(sizeof_unsigned_long))
    IN o3 - offset

\* "reset stack trace, no need to clear memory"
reset_stack_trace(slot) == [slot EXCEPT !.nr_entries = 0]

\* A get_size that forgets the increment.
guard_enter_none(mode, nesting) == nesting

\* An increment the decrement does not undo.
guard_enter_twice(mode, nesting) == IF mode = CALLSTACK_USER THEN nesting + 2 ELSE nesting

\* The guard around the save_func call.
guard_enter(mode, nesting) == IF mode = CALLSTACK_USER THEN nesting + 1 ELSE nesting
\* A get_size that forgets the decrement.
guard_leave_none(mode, nesting) == nesting

guard_leave(mode, nesting) == IF mode = CALLSTACK_USER THEN nesting - 1 ELSE nesting

\* Address of frame i of the call chain the unwinder walks for an event of
\* the given mode at ring-buffer depth `depth` on `cpu`.
FrameAddr(cpu, depth, mode, i) == (i + 1) + 256 * (depth + 16 * cpu) + 65536 * (mode + 1)

\* save_stack_trace() / save_stack_trace_user(): the call chain has `frames`
\* frames; they are appended while there is room, and a backend that marks
\* the natural bottom (`sentinel`) appends ULONG_MAX if room is left.
save_stack_trace(slot, frames, sentinel, cpu, depth, mode) ==
    LET room == IF slot.max_entries > slot.nr_entries
                THEN slot.max_entries - slot.nr_entries ELSE 0
        taken == IF frames < room THEN frames ELSE room
        mark == IF sentinel /\ taken < room THEN 1 ELSE 0
        first == slot.nr_entries
        last == first + taken + mark
        extent == IF Len(slot.entries) > last THEN Len(slot.entries) ELSE last
    IN [slot EXCEPT
          !.nr_entries = last,
          !.entries = [j \in 1 .. extent |->
                         IF j - 1 >= first /\ j - 1 < first + taken
                         THEN FrameAddr(cpu, depth, mode, j - 1 - first)
                         ELSE IF j - 1 >= first /\ j - 1 < last THEN ULONG_MAX
                         ELSE Entry(slot, j - 1)]]

\* A normalisation that leaves the backend's delimiter in place.
remove_delimiter_never(slot) == slot

\* "Remove final ULONG_MAX delimiter."
remove_delimiter(slot) ==
    IF slot.nr_entries > 0 /\ Entry(slot, slot.nr_entries - 1) = ULONG_MAX
    THEN [slot EXCEPT !.nr_entries = slot.nr_entries - 1]
    ELSE slot

\* A size that forgets the room of the truncation marker.
sequence_size_nodelim(offset, slot) ==
    LET o1 == offset + lib_ring_buffer_align(offset, lttng_alignof(sizeof_unsigned_int))
        o2 == o1 + sizeof_unsigned_int
        o3 == o2 + lib_ring_buffer_align(o2, lttng_alignof(sizeof_unsigned_long))
    IN o3 + sizeof_unsigned_long * slot.nr_entries - offset

\* The capture branch of lttng_callstack_get_size() after normalisation.
sequence_size(offset, slot) ==
    LET o1 == offset + lib_ring_buffer_align(offset, lttng_alignof(sizeof_unsigned_int))
        o2 == o1 + sizeof_unsigned_int
        o3 == o2 + lib_ring_buffer_align(o2, lttng_alignof(sizeof_unsigned_long))
        o4 == o3 + sizeof_unsigned_long * slot.nr_entries
        o5 == IF slot.nr_entries = slot.max_entries THEN o4 + sizeof_unsigned_long ELSE o4
    IN o5 - offset

\* ------------------------------------------------- ring-buffer writes
Pow256(k) == IF k = 0 THEN 1 ELSE IF k = 1 THEN 256 ELSE IF k = 2 THEN 65536 ELSE 16777216

\* Byte k of the little-endian image of a two's-complement word.
ByteOf(w, k) == IF k < 4 THEN (w \div Pow256(k)) % 256 ELSE IF w < 0 THEN 255 ELSE 0

\* event_write() of an unsigned int / of an unsigned long.
EncodeUInt(n) == [k \in 1 .. sizeof_unsigned_int |-> ByteOf(n, k - 1)]
EncodeULong(w) == [k \in 1 .. sizeof_unsigned_long |-> ByteOf(w, k - 1)]

\* lib_ring_buffer_align_ctx(): skip padding; the skipped bytes read as 0.
Padding(offset, align) == [k \in 1 .. lib_ring_buffer_align(offset, align) |-> 0]

\* event_write(ctx, trace->entries, sizeof(unsigned long) * n)
EncodeEntries(slot, len) ==
    [j \in 1 .. len |->
        ByteOf(Entry(slot, (j - 1) \div sizeof_unsigned_long), (j - 1) % sizeof_unsigned_long)]

\* The entries written with the size of the count's type.
entries_len_uint(slot) == sizeof_unsigned_int * slot.nr_entries

\* Bytes of trace->entries that lttng_callstack_record() writes.
entries_len(slot) == sizeof_unsigned_long * slot.nr_entries

\* A count that leaves the truncation marker out.
nr_seq_entries_plain(slot) == slot.nr_entries

\* nr_seq_entries of lttng_callstack_record().
nr_seq_entries(slot) ==
    IF slot.nr_entries = slot.max_entries THEN slot.nr_entries + 1 ELSE slot.nr_entries

\* A record step that never writes the marker.
delimiter_never(slot) == <<>>

\* "Add our own ULONG_MAX delimiter to show incomplete stack."
delimiter(slot) ==
    IF slot.nr_entries = slot.max_entries THEN EncodeULong(ULONG_MAX) ELSE <<>>

\* The skip branch of lttng_callstack_record().
record_empty(offset) ==
    LET pad1 == Padding(offset, lttng_alignof(sizeof_unsigned_int))
        o2 == offset + Len(pad1) + sizeof_unsigned_int
    IN pad1 \o EncodeUInt(0) \o Padding(o2, lttng_alignof(sizeof_unsigned_long))

\* The capture branch of lttng_callstack_record(): the bytes it writes
\* (padding included) when the write cursor is at `offset`.
record_sequence(offset, slot) ==
    LET pad1 == Padding(offset, lttng_alignof(sizeof_unsigned_int))
        o2 == offset + Len(pad1) + sizeof_unsigned_int
        pad2 == Padding(o2, lttng_alignof(sizeof_unsigned_long))
    IN pad1 \o EncodeUInt(nr_seq_entries(slot)) \o pad2
            \o EncodeEntries(slot, entries_len(slot)) \o delimiter(slot)

\* --------------------------------------------- reading a payload back
DecodeUInt(b) == b[1] + 256 * b[2] + 65536 * b[3] + 16777216 * b[4]

DecodeULong(b) ==
    IF b[sizeof_unsigned_long] >= 128
    THEN 0 - (1 + (255 - b[1]) + 256 * (255 - b[2]) + 65536 * (255 - b[3])
                + 16777216 * (255 - b[4]))
    ELSE b[1] + 256 * b[2] + 65536 * b[3] + 16777216 * b[4]

\* A trace reader: the CTF sequence that starts at `offset` in payload `out`.
ParsePayload(offset, out) ==
    LET p1 == lib_ring_buffer_align(offset, lttng_alignof(sizeof_unsigned_int))
        hdr == p1 + sizeof_unsigned_int
    IN IF Len(out) < hdr THEN [ok |-> FALSE, count |-> 0, words |-> <<>>, length |-> 0]
       ELSE LET count == DecodeUInt(SubSeq(out, p1 + 1, hdr))
                p2 == lib_ring_buffer_align(offset + hdr, lttng_alignof(sizeof_unsigned_long))
                base == hdr + p2
                total == base + sizeof_unsigned_long * count
            IN IF Len(out) < total
               THEN [ok |-> FALSE, count |-> count, words |-> <<>>, length |-> total]
               ELSE [ok |-> TRUE, count |-> count, length |-> total,
                     words |-> [i \in 1 .. count |->
                        DecodeULong(SubSeq(out, base + sizeof_unsigned_long * (i - 1) + 1,
                                           base + sizeof_unsigned_long * i))]]

\* ---------------------------------------------------------------- state
NoCall == [op |-> "none", type |-> 0, env |-> AllSucceed, ret |-> 0]

Init ==
    /\ CONFIG_X86 \in BOOLEAN
    /\ session = "setup"
    /\ save_func = [m \in Modes |-> FALSE]
    /\ ctx_fields = <<>>
    /\ field_data = <<>>
    /\ percpu_cs = <<>>
    /\ last_call = NoCall
    /\ callstack_user_nesting = [c \in CPUs |-> 0]
    /\ lib_ring_buffer_nesting = [c \in CPUs |-> 0]
    /\ inflight = [c \in CPUs |-> <<>>]
    /\ nr_events = 0

\* ------------------------------------------------------ control actions
\* lttng_add_callstack_to_ctx(ctx, type); contexts are added while the
\* session is being set up.
Attach(type, env) ==
    /\ session = "setup"
    /\ LET r == lttng_add_callstack_to_ctx(CtlState, type, CONFIG_X86, env)
       IN /\ save_func' = r.st.save_func
          /\ ctx_fields' = r.st.ctx_fields
          /\ field_data' = r.st.field_data
          /\ percpu_cs' = r.st.percpu_cs
          /\ last_call' = [op |-> "attach", type |-> type, env |-> env, ret |-> r.ret]
    /\ UNCHANGED <<CONFIG_X86, session>>
    /\ UNCHANGED hotvars

\* lttng_callstack_destroy(field)
lttng_callstack_destroy(heaps, field) ==
    field_data_free(heaps.field_data, heaps.percpu_cs, field.priv)

RECURSIVE DestroyFields(_, _)
DestroyFields(heaps, fields) ==
    IF fields = <<>> THEN heaps
    ELSE DestroyFields(IF Head(fields).hooks THEN lttng_callstack_destroy(heaps, Head(fields))
                       ELSE heaps,
                       Tail(fields))

Quiescent == \A c \in CPUs : inflight[c] = <<>> /\ lib_ring_buffer_nesting[c] = 0

\* The context set is destroyed: every field's destroy hook runs.  No event
\* references the fields at this point.
DestroyContext ==
    /\ session \in {"setup", "active"}
    /\ Quiescent
    /\ ctx_fields # <<>>
    /\ LET h == DestroyFields([field_data |-> field_data, percpu_cs |-> percpu_cs], ctx_fields)
       IN /\ field_data' = h.field_data
          /\ percpu_cs' = h.percpu_cs
    /\ ctx_fields' = <<>>
    /\ session' = IF session = "setup" THEN "setup" ELSE "destroyed"
    /\ last_call' = [NoCall EXCEPT !.op = "destroy"]
    /\ UNCHANGED <<CONFIG_X86, save_func>>
    /\ UNCHANGED hotvars

\* The session is enabled: events may fire from now on.
StartSession ==
    /\ session = "setup"
    /\ session' = "active"
    /\ last_call' = [NoCall EXCEPT !.op = "enable"]
    /\ UNCHANGED <<CONFIG_X86, save_func, ctx_fields, field_data, percpu_cs>>
    /\ UNCHANGED hotvars

\* ---------------------------------------------------------- hot actions
Top(c) == inflight[c][Len(inflight[c])]

\* Where lttng_callstack_get_size() .. lttng_callstack_record() of an event
\* can be interrupted by another event on the same CPU.
InterruptPoints == {"reserve", "unwind", "measured", "recorded"}

\* Events of other channels beneath an event: none, or as many as bring the
\* event to the deepest slot.
Belows == {0, RING_BUFFER_MAX_NESTING - 1}

SetTop(c, fr) == [inflight EXCEPT ![c] = [inflight[c] EXCEPT ![Len(inflight[c])] = fr]]

\* An event whose context set holds callstack field f fires on CPU c, on
\* top of whatever that CPU is doing, while `below` events of channels
\* without a callstack field are in flight right beneath it (they end right
\* after it): lib_ring_buffer_get_cpu() for each of them.  The field starts
\* at `offset` in the event record.
EventBegin(c, f, offset, below) ==
    /\ session = "active"
    /\ nr_events < MaxEvents
    /\ lib_ring_buffer_nesting[c] + below < MaxNesting
    /\ f \in 1 .. Len(ctx_fields)
    /\ ctx_fields[f].hooks
    /\ inflight[c] # <<>> => Top(c).pc \in InterruptPoints
    /\ lib_ring_buffer_nesting' = [lib_ring_buffer_nesting EXCEPT ![c] = @ + below + 1]
    /\ inflight' = [inflight EXCEPT ![c] = Append(@,
          [field |-> f, priv |-> ctx_fields[f].priv,
           mode |-> field_data[ctx_fields[f].priv].mode,
           pc |-> "reserve", offset |-> offset, below |-> below,
           depth |-> lib_ring_buffer_nesting[c] + below + 1,
           guard0 |-> callstack_user_nesting[c], trace |-> NullTrace, rtrace |-> NullTrace,
           chain |-> [frames |-> 0, sentinel |-> FALSE], size |-> 0, out |-> <<>>, inner |-> {}])]
    /\ nr_events' = nr_events + 1
    /\ UNCHANGED <<CONFIG_X86, session, save_func, ctx_fields, field_data, percpu_cs,
                   last_call, callstack_user_nesting>>

\* lttng_callstack_get_size() up to the call of save_func, or to its return
\* on the skip branch.
GetSizeEnter(c) ==
    /\ inflight[c] # <<>>
    /\ Top(c).pc = "reserve"
    /\ LET fr == Top(c)
           trace == stack_trace_context(fr.priv, c)
       IN IF trace.cs = NULL
          THEN /\ inflight' = SetTop(c, [fr EXCEPT !.pc = "measured",
                                  !.trace = trace,
                                  !.size = empty_sequence_size(fr.offset)])
               /\ UNCHANGED <<percpu_cs, callstack_user_nesting>>
          ELSE /\ percpu_cs' = Store(percpu_cs, trace, reset_stack_trace(Deref(trace)))
               /\ callstack_user_nesting' =
                    [callstack_user_nesting EXCEPT ![c] = guard_enter(fr.mode, @)]
               /\ inflight' = SetTop(c, [fr EXCEPT !.pc = "unwind",
                                  !.trace = trace])
    /\ UNCHANGED <<CONFIG_X86, session, save_func, ctx_fields, field_data, last_call,
                   lib_ring_buffer_nesting, nr_events>>

\* save_func returns having walked a call chain of `frames` frames; the rest
\* of lttng_callstack_get_size() runs.
GetSizeReturn(c, frames, sentinel) ==
    /\ inflight[c] # <<>>
    /\ Top(c).pc = "unwind"
    /\ LET fr == Top(c)
           before == Deref(fr.trace)
           saved == save_stack_trace(before, frames, sentinel, c, fr.depth, fr.mode)
           slot == remove_delimiter(saved)
       IN /\ percpu_cs' = Store(percpu_cs, fr.trace, slot)
          /\ callstack_user_nesting' =
               [callstack_user_nesting EXCEPT ![c] = guard_leave(fr.mode, @)]
          /\ inflight' = SetTop(c, [fr EXCEPT !.pc = "measured",
                  !.chain = [frames |-> frames, sentinel |-> sentinel],
                  !.size = sequence_size(fr.offset, slot)])
    /\ UNCHANGED <<CONFIG_X86, session, save_func, ctx_fields, field_data, last_call,
                   lib_ring_buffer_nesting, nr_events>>

\* lttng_callstack_record()
Record(c) ==
    /\ inflight[c] # <<>>
    /\ Top(c).pc = "measured"
    /\ LET fr == Top(c)
           trace == stack_trace_context(fr.priv, c)
       IN inflight' = SetTop(c, [fr EXCEPT !.pc = "recorded", !.rtrace = trace,
               !.out = IF trace.cs = NULL THEN record_empty(fr.offset)
                       ELSE record_sequence(fr.offset, Deref(trace))])
    /\ UNCHANGED <<CONFIG_X86, session, save_func, ctx_fields, field_data, percpu_cs,
                   last_call, callstack_user_nesting, lib_ring_buffer_nesting, nr_events>>

\* The event is committed: lib_ring_buffer_put_cpu().  The event it
\* interrupted, if any, resumes.
EventEnd(c) ==
    /\ inflight[c] # <<>>
    /\ Top(c).pc = "recorded"
    /\ lib_ring_buffer_nesting' = [lib_ring_buffer_nesting EXCEPT ![c] = @ - Top(c).below - 1]
    /\ LET n == Len(inflight[c])
           fr == Top(c)
           rest == SubSeq(inflight[c], 1, n - 1)
       IN inflight' = [inflight EXCEPT ![c] =
             IF n = 1 THEN rest
             ELSE [rest EXCEPT ![n - 1].inner = @ \cup
                      {[at |-> rest[n - 1].pc, mode |-> fr.mode,
                        captured |-> fr.trace.cs # NULL]}]]
    /\ UNCHANGED <<CONFIG_X86, session, save_func, ctx_fields, field_data, percpu_cs,
                   last_call, callstack_user_nesting, nr_events>>

ControlNext ==
    \/ \E type \in ContextTypes, env \in Envs : Attach(type, env)
    \/ DestroyContext
    \/ StartSession

TraceNext ==
    \/ \E c \in CPUs, f \in 1 .. 2, offset \in Offsets, below \in Belows :
           EventBegin(c, f, offset, below)
    \/ \E c \in CPUs : GetSizeEnter(c)
    \/ \E c \in CPUs, frames \in StackDepths, sentinel \in BOOLEAN :
           GetSizeReturn(c, frames, sentinel)
    \/ \E c \in CPUs : Record(c)
    \/ \E c \in CPUs : EventEnd(c)
    \/ DestroyContext

\* The state StartSession leaves after both callstack contexts were attached
\* to an empty context set on an x86 build.
Traced ==
    LET empty == [save_func |-> [m \in Modes |-> FALSE], ctx_fields |-> <<>>,
                  field_data |-> <<>>, percpu_cs |-> <<>>]
        k == lttng_add_callstack_to_ctx(empty, LTTNG_KERNEL_CONTEXT_CALLSTACK_KERNEL,
                                        TRUE, AllSucceed).st
    IN lttng_add_callstack_to_ctx(k, LTTNG_KERNEL_CONTEXT_CALLSTACK_USER, TRUE, AllSucceed).st

TraceInit ==
    /\ CONFIG_X86 = TRUE
    /\ session = "active"
    /\ save_func = Traced.save_func
    /\ ctx_fields = Traced.ctx_fields
    /\ field_data = Traced.field_data
    /\ percpu_cs = Traced.percpu_cs
    /\ last_call = [NoCall EXCEPT !.op = "enable"]
    /\ callstack_user_nesting = [c \in CPUs |-> 0]
    /\ lib_ring_buffer_nesting = [c \in CPUs |-> 0]
    /\ inflight = [c \in CPUs |-> <<>>]
    /\ nr_events = 0

\* The hot path of a session tracing with both callstack contexts.
Spec == TraceInit /\ [][TraceNext]_vars

\* The attachment path.
SpecControl == Init /\ [][ControlNext]_vars

\* lttng_add_callstack_to_ctx(ctx, type) up to its return on an error path,
\* or up to its call of wrapper_vmalloc_sync_all(): the field carries its
\* hooks and its private data from here on.
AttachInstall(type, env) ==
    /\ session = "setup"
    /\ LET r == lttng_add_callstack_to_ctx(CtlState, type, CONFIG_X86, env)
       IN /\ save_func' = r.presync.save_func
          /\ ctx_fields' = r.presync.ctx_fields
          /\ field_data' = r.presync.field_data
          /\ percpu_cs' = r.presync.percpu_cs
          /\ session' = IF r.ret = 0 THEN "attaching" ELSE "setup"
          /\ last_call' = [op |-> IF r.ret = 0 THEN "attaching" ELSE "attach",
                           type |-> type, env |-> env, ret |-> r.ret]
    /\ UNCHANGED CONFIG_X86
    /\ UNCHANGED hotvars

\* wrapper_vmalloc_sync_all() and the return of the successful attach.  The
\* control calls on a session are serialised: nothing else is done to the
\* session while the attach is in progress.
AttachSync ==
    /\ session = "attaching"
    /\ ctx_fields' = wrapper_vmalloc_sync_all(ctx_fields)
    /\ session' = "setup"
    /\ last_call' = [last_call EXCEPT !.op = "attach"]
    /\ UNCHANGED <<CONFIG_X86, save_func, field_data, percpu_cs>>
    /\ UNCHANGED hotvars

LifecycleNext ==
    \/ \E type \in ContextTypes, env \in Envs : AttachInstall(type, env)
    \/ AttachSync
    \/ StartSession
    \/ DestroyContext
    \/ \E c \in CPUs, f \in 1 .. 2 : EventBegin(c, f, 0, 0)
    \/ \E c \in CPUs : GetSizeEnter(c)
    \/ \E c \in CPUs, frames \in 0 .. MaxFrames : GetSizeReturn(c, frames, TRUE)
    \/ \E c \in CPUs : Record(c)
    \/ \E c \in CPUs : EventEnd(c)

\* A session from its set-up to its destruction: contexts are attached step
\* by step, the session is enabled, events fire.
SpecLifecycle == Init /\ [][LifecycleNext]_vars

\* stack_trace_context(field, ctx) called for field f with ctx->cpu = c, on
\* its own: its result for the counters of the state.
Select(c, f) ==
    /\ inflight[c] = <<>>
    /\ f \in 1 .. Len(ctx_fields)
    /\ inflight' = [inflight EXCEPT ![c] =
          <<[field |-> f, priv |-> ctx_fields[f].priv,
             mode |-> field_data[ctx_fields[f].priv].mode,
             pc |-> "selected", offset |-> 0, below |-> 0,
             depth |-> lib_ring_buffer_nesting[c],
             guard0 |-> callstack_user_nesting[c],
             trace |-> stack_trace_context(ctx_fields[f].priv, c), rtrace |-> NullTrace,
             chain |-> [frames |-> 0, sentinel |-> FALSE], size |-> 0, out |-> <<>>,
             inner |-> {}]>>]
    /\ UNCHANGED <<CONFIG_X86, session, save_func, ctx_fields, field_data, percpu_cs,
                   last_call, callstack_user_nesting, lib_ring_buffer_nesting, nr_events>>

\* Both callstack contexts attached, and any value of the two per-CPU
\* counters that stack_trace_context reads.
SelectInit ==
    /\ CONFIG_X86 = TRUE
    /\ session = "active"
    /\ save_func = Traced.save_func
    /\ ctx_fields = Traced.ctx_fields
    /\ field_data = Traced.field_data
    /\ percpu_cs = Traced.percpu_cs
    /\ last_call = [NoCall EXCEPT !.op = "enable"]
    /\ callstack_user_nesting \in [CPUs -> 0 .. 1]
    /\ lib_ring_buffer_nesting \in [CPUs -> 0 .. MaxNesting]
    /\ inflight = [c \in CPUs |-> <<>>]
    /\ nr_events = 0

SelectNext == \E c \in CPUs, f \in 1 .. 2 : Select(c, f)

\* stack_trace_context as a function of the counters.
SpecSelect == SelectInit /\ [][SelectNext]_vars

\* ======================================================== properties
Captured(fr) == fr.trace.cs # NULL

\* The frame list F the unwinder finds for in-flight event fr of CPU c.
FrameList(c, fr) ==
    [i \in 1 .. (IF fr.chain.frames < MAX_ENTRIES THEN fr.chain.frames ELSE MAX_ENTRIES) |->
        FrameAddr(c, fr.depth, fr.mode, i - 1)]

\* What the backend leaves in entries[0 .. L): F, and its delimiter if it
\* appends one and room is left.
Filled(c, fr) ==
    IF fr.chain.sentinel /\ Len(FrameList(c, fr)) < MAX_ENTRIES
    THEN Append(FrameList(c, fr), ULONG_MAX) ELSE FrameList(c, fr)

EndsWithMax(seq) == seq # <<>> /\ seq[Len(seq)] = ULONG_MAX

Normalized(c, fr) ==
    IF EndsWithMax(Filled(c, fr)) THEN SubSeq(Filled(c, fr), 1, Len(Filled(c, fr)) - 1)
    ELSE Filled(c, fr)

Payload(fr) == ParsePayload(fr.offset, fr.out)

Recorded(c, i) == inflight[c][i].pc = "recorded"

\* C1: for every event, on the capture branch and on the skip branch, the
\* number of bytes lttng_callstack_record wrote (padding included) equals
\* the byte count lttng_callstack_get_size returned for that event.
C1_RecordWritesMeasuredSize ==
    \A c \in CPUs : \A i \in 1 .. Len(inflight[c]) :
        Recorded(c, i) => Len(inflight[c][i].out) = inflight[c][i].size

\* A truncated user-stack capture written at an unaligned offset.
C1_Witness ==
    \E c \in CPUs : \E i \in 1 .. Len(inflight[c]) :
        LET fr == inflight[c][i]
        IN /\ Recorded(c, i) /\ Captured(fr)
           /\ fr.mode = CALLSTACK_USER /\ fr.offset = 1
           /\ fr.chain.frames = MAX_ENTRIES
           /\ fr.size = 3 + 4 + (MAX_ENTRIES + 1) * 8

\* C2: round trip.  When the backend fills a frame list F of length L with no
\* trailing sentinel, the payload parses back to a count N followed by
\* exactly N words: N = L and the words are F when L < MAX_ENTRIES, N = L + 1
\* and the words are F followed by ULONG_MAX when L = MAX_ENTRIES.
C2_RoundTrip ==
    \A c \in CPUs : \A i \in 1 .. Len(inflight[c]) :
        LET fr == inflight[c][i]
            F == Filled(c, fr)
            p == Payload(fr)
        IN (Recorded(c, i) /\ Captured(fr) /\ ~EndsWithMax(F)) =>
              /\ p.ok
              /\ p.length = Len(fr.out)
              /\ IF Len(F) < MAX_ENTRIES
                 THEN p.count = Len(F) /\ p.words = F
                 ELSE p.count = Len(F) + 1 /\ p.words = Append(F, ULONG_MAX)

\* L = 1: one element and no marker.
C2_Witness ==
    \E c \in CPUs : \E i \in 1 .. Len(inflight[c]) :
        LET fr == inflight[c][i]
        IN /\ Recorded(c, i) /\ Captured(fr)
           /\ fr.chain.frames = 1 /\ ~fr.chain.sentinel
           /\ Payload(fr).count = 1
           /\ Payload(fr).words = <<FrameAddr(c, fr.depth, fr.mode, 0)>>

\* C3: when the backend fills all MAX_ENTRIES entries and the last one is not
\* ULONG_MAX, the count prefix is MAX_ENTRIES + 1, the MAX_ENTRIES frames
\* follow unchanged and the last element is ULONG_MAX; and the marker is
\* emitted if and only if the slot length equals max_entries after the
\* sentinel normalisation.
C3_TruncationMarker ==
    \A c \in CPUs : \A i \in 1 .. Len(inflight[c]) :
        LET fr == inflight[c][i]
            F == Filled(c, fr)
            p == Payload(fr)
            slot == Deref(fr.rtrace)
        IN (Recorded(c, i) /\ Captured(fr)) =>
              /\ p.ok
              /\ (Len(F) = MAX_ENTRIES /\ ~EndsWithMax(F)) =>
                    /\ p.count = MAX_ENTRIES + 1
                    /\ SubSeq(p.words, 1, MAX_ENTRIES) = F
                    /\ p.words[MAX_ENTRIES + 1] = ULONG_MAX
              /\ p.words = Append(Normalized(c, fr), ULONG_MAX)
                    <=> slot.nr_entries = slot.max_entries
              /\ slot.nr_entries # slot.max_entries => p.words = Normalized(c, fr)

C3_Witness ==
    \E c \in CPUs : \E i \in 1 .. Len(inflight[c]) :
        LET fr == inflight[c][i]
        IN /\ Recorded(c, i) /\ Captured(fr)
           /\ fr.chain.frames = MAX_ENTRIES
           /\ Payload(fr).count = 129
           /\ Payload(fr).words[129] = ULONG_MAX

\* C4: sentinel normalisation.  When the backend leaves length L with
\* 1 <= L < MAX_ENTRIES and entries[L-1] = ULONG_MAX, get_size strips the
\* sentinel: the emitted count is L - 1, the elements are entries[0 .. L-1),
\* and neither the sentinel nor a truncation marker is emitted.
C4_SentinelStripped ==
    \A c \in CPUs : \A i \in 1 .. Len(inflight[c]) :
        LET fr == inflight[c][i]
            F == Filled(c, fr)
            L == Len(F)
            p == Payload(fr)
        IN (Captured(fr) /\ L >= 1 /\ L < MAX_ENTRIES /\ EndsWithMax(F)) =>
              /\ fr.pc = "measured" => Deref(fr.trace).nr_entries = L - 1
              /\ Recorded(c, i) =>
                    /\ p.ok
                    /\ p.count = L - 1
                    /\ p.words = SubSeq(F, 1, L - 1)
                    /\ Len(fr.out) = p.length
                    /\ \A k \in 1 .. p.count : p.words[k] # ULONG_MAX

\* The backend returned [frame, ULONG_MAX]; count = 1 was emitted.
C4_Witness ==
    \E c \in CPUs : \E i \in 1 .. Len(inflight[c]) :
        LET fr == inflight[c][i]
        IN /\ Recorded(c, i) /\ Captured(fr)
           /\ fr.chain.frames = 1 /\ fr.chain.sentinel
           /\ Filled(c, fr) = <<FrameAddr(c, fr.depth, fr.mode, 0), ULONG_MAX>>
           /\ Payload(fr).count = 1

\* C5 as stated: with L the slot length after sentinel stripping, the length
\* prefix equals L when L < MAX_ENTRIES and equals MAX_ENTRIES, with an
\* appended ULONG_MAX marker, when L = MAX_ENTRIES.
C5_PrefixAsStated ==
    \A c \in CPUs : \A i \in 1 .. Len(inflight[c]) :
        LET fr == inflight[c][i]
            L == Deref(fr.rtrace).nr_entries
            p == Payload(fr)
        IN (Recorded(c, i) /\ Captured(fr)) =>
              /\ L < MAX_ENTRIES => p.count = L
              /\ L = MAX_ENTRIES => p.count = MAX_ENTRIES

\* C5, amended: with L the slot length after sentinel stripping, the length
\* prefix equals L when L < MAX_ENTRIES, and equals MAX_ENTRIES + 1 when
\* L = MAX_ENTRIES: the prefix counts the appended ULONG_MAX marker, which is
\* the last of the MAX_ENTRIES + 1 words that follow.
C5_PrefixCountsMarker ==
    \A c \in CPUs : \A i \in 1 .. Len(inflight[c]) :
        LET fr == inflight[c][i]
            L == Deref(fr.rtrace).nr_entries
            p == Payload(fr)
        IN (Recorded(c, i) /\ Captured(fr)) =>
              /\ L = Len(Normalized(c, fr))
              /\ L < MAX_ENTRIES => p.count = L
              /\ L = MAX_ENTRIES =>
                    /\ p.count = MAX_ENTRIES + 1
                    /\ p.ok
                    /\ Len(p.words) = MAX_ENTRIES + 1
                    /\ p.words[MAX_ENTRIES + 1] = ULONG_MAX

C5_Witness ==
    \E c \in CPUs : \E i \in 1 .. Len(inflight[c]) :
        LET fr == inflight[c][i]
        IN /\ Recorded(c, i) /\ Captured(fr)
           /\ Deref(fr.rtrace).nr_entries = MAX_ENTRIES
           /\ Payload(fr).count = MAX_ENTRIES + 1

\* Event i of CPU c was raised inside the user unwinder call of an outer
\* UserStack get_size.
InsideUserUnwinder(c, i) ==
    \E j \in 1 .. (i - 1) :
        inflight[c][j].mode = CALLSTACK_USER /\ inflight[c][j].pc = "unwind"

\* The element words record emits for a capture: the normalised frames, and
\* the marker when they fill the slot.
Emitted(c, fr) ==
    IF Len(Normalized(c, fr)) = MAX_ENTRIES THEN Append(Normalized(c, fr), ULONG_MAX)
    ELSE Normalized(c, fr)

C6_InnerSkipsOuterIntact ==
    \A c \in CPUs : \A i \in 1 .. Len(inflight[c]) :
        LET fr == inflight[c][i]
            p == Payload(fr)
        IN /\ (fr.mode = CALLSTACK_USER /\ InsideUserUnwinder(c, i)) =>
                 /\ fr.guard0 >= 1
                 /\ fr.pc # "unwind"
                 /\ fr.trace = NullTrace /\ fr.rtrace = NullTrace
                 /\ fr.pc \in {"measured", "recorded"} =>
                       fr.size = empty_sequence_size(fr.offset)
                 /\ fr.pc = "recorded" =>
                       /\ p.ok /\ p.count = 0 /\ p.words = <<>>
                       /\ Len(fr.out) = fr.size
           /\ (/\ fr.mode = CALLSTACK_USER /\ Captured(fr) /\ fr.pc = "recorded"
               /\ \E e \in fr.inner :
                     e.at = "unwind" /\ e.mode = CALLSTACK_USER /\ ~e.captured) =>
                 p.ok /\ p.words = Emitted(c, fr)

\* A step of an event raised inside the user unwinder, carrying a UserStack
\* field, leaves every capture slot as it is.
C6_InnerStep ==
    \A c \in CPUs :
        (/\ inflight[c] # <<>>
         /\ Len(inflight'[c]) = Len(inflight[c])
         /\ inflight'[c] # inflight[c]
         /\ Top(c).mode = CALLSTACK_USER
         /\ InsideUserUnwinder(c, Len(inflight[c]))) => percpu_cs' = percpu_cs

\* C6: user-stack reentrancy.  An event with a UserStack field that fires
\* while its CPU is inside the user unwinder call of an outer UserStack
\* get_size (guard >= 1) is measured as an empty sequence and written with
\* count = 0; the unwinder is not invoked for it and no capture slot is read
\* or written; after it completes, the outer event's record emits exactly the
\* frames the outer unwinder produced.
C6_UserReentrancy == [](C6_InnerSkipsOuterIntact) /\ [][C6_InnerStep]_vars

\* The outer UserStack event wrote its frames after an inner UserStack event
\* was skipped inside its unwinder call.
C6_Witness ==
    \E c \in CPUs : \E i \in 1 .. Len(inflight[c]) :
        LET fr == inflight[c][i]
        IN /\ fr.mode = CALLSTACK_USER /\ Captured(fr) /\ fr.pc = "recorded"
           /\ [at |-> "unwind", mode |-> CALLSTACK_USER, captured |-> FALSE] \in fr.inner
           /\ Payload(fr).count >= 1
           /\ Payload(fr).words = Emitted(c, fr)

\* C7: callstack_user_nesting is never negative; on every CPU it is back at
\* its value from before the events once they have completed (idle CPU, or
\* an interrupted event that is on top again), whatever their modes, depths
\* and branches; every get_size returns with the counter at its pre-call
\* value.
C7_GuardBalanced ==
    \A c \in CPUs :
        /\ callstack_user_nesting[c] >= 0
        /\ inflight[c] = <<>> => callstack_user_nesting[c] = 0
        /\ inflight[c] # <<>> =>
              /\ Top(c).pc \in {"reserve", "measured", "recorded"} =>
                    callstack_user_nesting[c] = Top(c).guard0
              /\ Top(c).pc = "unwind" =>
                    callstack_user_nesting[c] =
                        Top(c).guard0 + (IF Top(c).mode = CALLSTACK_USER THEN 1 ELSE 0)

SlotOf(f, c, idx) == Deref([cs |-> field_data[ctx_fields[f].priv].cs_percpu, cpu |-> c, idx |-> idx])

\* A UserStack capture at depth 1 and a KernelStack capture nested at depth 2
\* have both completed on a CPU, which is idle again.
C7_Witness ==
    \E c \in CPUs : \E fu, fk \in 1 .. Len(ctx_fields) :
        /\ session = "active"
        /\ ctx_fields[fu].name = "callstack_user" /\ ctx_fields[fk].name = "callstack_kernel"
        /\ inflight[c] = <<>> /\ nr_events = MaxEvents
        /\ SlotOf(fu, c, 0).entries # <<>> /\ SlotOf(fk, c, 1).entries # <<>>
        /\ callstack_user_nesting[c] = 0

\* C8: nested events do not clobber outer captures.  From get_size to record
\* of an event at depth d, whatever events start and complete at deeper
\* levels on the CPU, the slot dispatch[d-1] keeps the length and the
\* entries get_size left, and record emits exactly that capture.
C8_OuterSlotKept ==
    \A c \in CPUs : \A i \in 1 .. Len(inflight[c]) :
        LET fr == inflight[c][i]
            slot == Deref(fr.trace)
            F == Filled(c, fr)
        IN (Captured(fr) /\ fr.pc \in {"measured", "recorded"}) =>
              /\ fr.trace.idx = fr.depth - 1
              /\ slot.nr_entries = Len(Normalized(c, fr))
              /\ \A k \in 1 .. Len(F) : Entry(slot, k - 1) = F[k]
              /\ fr.pc = "recorded" =>
                    /\ fr.rtrace = fr.trace
                    /\ Payload(fr).ok
                    /\ Payload(fr).words = Emitted(c, fr)

\* An event wrote its capture after an event of the same field captured at
\* a deeper level between its get_size and its record.
C8_Witness ==
    \E c \in CPUs : \E i \in 1 .. Len(inflight[c]) :
        LET fr == inflight[c][i]
        IN /\ Captured(fr) /\ fr.pc = "recorded"
           /\ [at |-> "measured", mode |-> fr.mode, captured |-> TRUE] \in fr.inner
           /\ Payload(fr).count >= 1
           /\ Payload(fr).words = Emitted(c, fr)

C9_OwnSlotsOnly ==
    \A c \in CPUs : \A i \in 1 .. Len(inflight[c]) :
        LET fr == inflight[c][i]
        IN Captured(fr) =>
              /\ fr.trace.cpu = c
              /\ fr.pc = "recorded" =>
                    /\ fr.rtrace.cpu = c
                    /\ Payload(fr).ok
                    /\ Payload(fr).words = Emitted(c, fr)

\* A step of CPU c leaves the slots and the guard of every other CPU alone.
C9_Step ==
    \A c \in CPUs :
        inflight'[c] # inflight[c] =>
            \A d \in CPUs \ {c} :
                /\ callstack_user_nesting'[d] = callstack_user_nesting[d]
                /\ \A a \in DOMAIN percpu_cs :
                      a \in DOMAIN percpu_cs' /\ percpu_cs'[a][d] = percpu_cs[a][d]

\* C9: cross-CPU isolation.  With events running concurrently on several
\* CPUs with the same field, get_size and record on CPU c use only the
\* capture slots and the guard of CPU c, no slot is changed by a CPU other
\* than its owner, and each CPU's payload decodes to the frames its own
\* backend call produced.
C9_CrossCpuIsolation == [](C9_OwnSlotsOnly) /\ [][C9_Step]_vars

\* Two CPUs have both written a capture of the same field, each its own.
C9_Witness ==
    \E c, d \in CPUs :
        /\ c # d /\ inflight[c] # <<>> /\ inflight[d] # <<>>
        /\ Top(c).pc = "recorded" /\ Top(d).pc = "recorded"
        /\ Top(c).field = Top(d).field
        /\ Captured(Top(c)) /\ Captured(Top(d))
        /\ Payload(Top(c)).count >= 1 /\ Payload(Top(d)).count >= 1
        /\ Payload(Top(c)).words = Emitted(c, Top(c))
        /\ Payload(Top(d)).words = Emitted(d, Top(d))
        /\ Payload(Top(c)).words # Payload(Top(d)).words

\* The mode a type selector stands for on this build, or NR_CALLSTACK_MODES.
ModeOfType(type) ==
    IF type = LTTNG_KERNEL_CONTEXT_CALLSTACK_KERNEL THEN CALLSTACK_KERNEL
    ELSE IF type = LTTNG_KERNEL_CONTEXT_CALLSTACK_USER /\ CONFIG_X86 THEN CALLSTACK_USER
    ELSE NR_CALLSTACK_MODES

AtMostOnePerName ==
    \A i, j \in 1 .. Len(ctx_fields) : ctx_fields[i].name = ctx_fields[j].name => i = j

\* An attach call that appended its field to a set that already holds a
\* field of the same display name.
C10_DuplicateStep ==
    (/\ last_call' # last_call
     /\ last_call'.op = "attach"
     /\ last_call'.env.append_ok
     /\ ModeOfType(last_call'.type) \in Modes
     /\ lttng_find_context(ctx_fields, cs_types_name(ModeOfType(last_call'.type)))) =>
        /\ last_call'.ret = 0 - EEXIST
        /\ ctx_fields' = ctx_fields
        /\ field_data' = field_data
        /\ percpu_cs' = percpu_cs

\* C10: attaching a mode to a context set that already holds a field with
\* that mode's display name (the call's own field having been appended)
\* returns -EEXIST, removes the appended field so that the set holds the same
\* fields as before, and leaves no capture set allocated by the call; a
\* context set never holds two fields of one display name.
C10_DuplicateAttach == [](AtMostOnePerName) /\ [][C10_DuplicateStep]_vars

\* CALLSTACK_KERNEL was attached twice: the second call returned -EEXIST and
\* one field with one capture set is left.
C10_Witness ==
    /\ last_call.op = "attach"
    /\ last_call.type = LTTNG_KERNEL_CONTEXT_CALLSTACK_KERNEL
    /\ last_call.ret = 0 - EEXIST
    /\ Len(ctx_fields) = 1 /\ ctx_fields[1].name = "callstack_kernel"
    /\ DOMAIN field_data = {1} /\ DOMAIN percpu_cs = {1}

\* The control step taken is lttng_add_callstack_to_ctx(ctx, type) with the
\* outcomes env: only Attach sets last_call.op to "attach".
AttachStep(type, env) ==
    /\ session = "setup"
    /\ last_call'.op = "attach" /\ last_call'.type = type /\ last_call'.env = env

NothingInstalled ==
    /\ ctx_fields' = ctx_fields
    /\ field_data' = field_data
    /\ percpu_cs' = percpu_cs

C11_Step ==
    \A type \in ContextTypes, env \in Envs :
        AttachStep(type, env) =>
            LET mode == ModeOfType(type)
            IN /\ (mode \in Modes /\ ~save_func[mode] /\ ~env.found) =>
                     last_call'.ret = 0 - EINVAL /\ NothingInstalled
               /\ (type = LTTNG_KERNEL_CONTEXT_CALLSTACK_USER /\ ~CONFIG_X86) =>
                     /\ last_call'.ret = 0 - EINVAL /\ NothingInstalled
                     /\ save_func' = save_func
               /\ (type \notin {LTTNG_KERNEL_CONTEXT_CALLSTACK_KERNEL,
                                LTTNG_KERNEL_CONTEXT_CALLSTACK_USER}) =>
                     /\ last_call'.ret = 0 - EINVAL /\ NothingInstalled
                     /\ save_func' = save_func

\* C11: attach returns -EINVAL, appends no field to the context set and
\* allocates no field_data and no per-CPU capture set when the backend
\* symbol of the requested mode cannot be resolved (whatever the later
\* append, duplicate test or allocations would have given), when the
\* selector is CALLSTACK_USER on a build without CONFIG_X86, and when the
\* selector is not a callstack type.
C11_AttachInvalid == [][C11_Step]_vars

\* The user unwinder's symbol was not found in a call whose field append
\* would have failed too: -EINVAL, and the set still holds the kernel field
\* alone.
C11_Witness ==
    /\ last_call.op = "attach" /\ last_call.ret = 0 - EINVAL
    /\ last_call.type = LTTNG_KERNEL_CONTEXT_CALLSTACK_USER /\ CONFIG_X86
    /\ ~last_call.env.found /\ ~last_call.env.append_ok
    /\ ~save_func[CALLSTACK_USER]
    /\ Len(ctx_fields) = 1 /\ ctx_fields[1].name = "callstack_kernel"
    /\ DOMAIN field_data = {1} /\ DOMAIN percpu_cs = {1}

\* C12: for every event at nesting depth d in 1 .. RING_BUFFER_MAX_NESTING,
\* stack_trace_context decides in record as it decided in get_size: both
\* select dispatch[d-1] of the capture set of the event's CPU or both select
\* no slot (the guard seen by record never turns a capture into a skip or a
\* skip into a capture), and record finds in the slot the length and the
\* entries get_size left there.
C12_SameDecision ==
    \A c \in CPUs : \A i \in 1 .. Len(inflight[c]) :
        LET fr == inflight[c][i]
            p == Payload(fr)
        IN (fr.pc = "recorded" /\ fr.depth \in 1 .. RING_BUFFER_MAX_NESTING) =>
              /\ fr.rtrace = fr.trace
              /\ \/ fr.trace = NullTrace
                 \/ fr.trace = [cs |-> field_data[fr.priv].cs_percpu, cpu |-> c,
                                idx |-> fr.depth - 1]
              /\ p.ok
              /\ IF Captured(fr)
                 THEN /\ p.words = Emitted(c, fr)
                      /\ Deref(fr.rtrace).nr_entries = Len(Normalized(c, fr))
                 ELSE p.count = 0

\* A user-stack event at depth 1 captured in get_size and in record, with a
\* kernel-stack event captured on the same CPU between the two.
C12_Witness ==
    \E c \in CPUs : \E i \in 1 .. Len(inflight[c]) :
        LET fr == inflight[c][i]
        IN /\ fr.pc = "recorded" /\ fr.mode = CALLSTACK_USER /\ fr.depth = 1
           /\ Captured(fr) /\ fr.rtrace = fr.trace /\ fr.trace.idx = 0
           /\ [at |-> "measured", mode |-> CALLSTACK_KERNEL, captured |-> TRUE] \in fr.inner
           /\ Payload(fr).count = Len(Normalized(c, fr))
           /\ Payload(fr).count >= 1

C13_Boundary ==
    \A c \in CPUs : \A i \in 1 .. Len(inflight[c]) :
        LET fr == inflight[c][i]
            p == Payload(fr)
        IN /\ (/\ fr.depth = RING_BUFFER_MAX_NESTING /\ fr.pc # "reserve"
               /\ (fr.mode = CALLSTACK_KERNEL \/ fr.guard0 = 0)) =>
                 /\ Captured(fr)
                 /\ fr.trace = [cs |-> field_data[fr.priv].cs_percpu, cpu |-> c,
                                idx |-> RING_BUFFER_MAX_NESTING - 1]
                 /\ fr.pc = "recorded" => fr.rtrace = fr.trace /\ p.words = Emitted(c, fr)
           /\ fr.depth > RING_BUFFER_MAX_NESTING =>
                 /\ fr.pc # "unwind"
                 /\ fr.trace = NullTrace /\ fr.rtrace = NullTrace
                 /\ fr.pc \in {"measured", "recorded"} =>
                       fr.size = empty_sequence_size(fr.offset)
                 /\ fr.pc = "recorded" =>
                       p.ok /\ p.count = 0 /\ p.words = <<>> /\ Len(fr.out) = fr.size

\* A step of an event deeper than RING_BUFFER_MAX_NESTING changes no slot.
C13_Step ==
    \A c \in CPUs :
        (/\ inflight[c] # <<>>
         /\ Len(inflight'[c]) = Len(inflight[c])
         /\ inflight'[c] # inflight[c]
         /\ Top(c).depth > RING_BUFFER_MAX_NESTING) => percpu_cs' = percpu_cs

\* C13: nesting boundary.  At ring-buffer nesting depth exactly
\* RING_BUFFER_MAX_NESTING the safety net lets the capture proceed, in the
\* highest slot dispatch[RING_BUFFER_MAX_NESTING - 1] (a user-stack field
\* raised inside the user unwinder is stopped before the safety net, by the
\* guard); at any greater depth no slot is read or written, the unwinder is
\* not invoked, get_size returns the empty-sequence size and record emits
\* count = 0.
C13_NestingBoundary == [](C13_Boundary) /\ [][C13_Step]_vars

\* An event at depth RING_BUFFER_MAX_NESTING captured in the highest slot,
\* and the event that interrupted it, one level deeper, was written empty.
C13_Witness ==
    \E c \in CPUs :
        /\ Len(inflight[c]) = 2
        /\ inflight[c][1].depth = RING_BUFFER_MAX_NESTING
        /\ Captured(inflight[c][1])
        /\ inflight[c][1].trace.idx = RING_BUFFER_MAX_NESTING - 1
        /\ inflight[c][2].depth = RING_BUFFER_MAX_NESTING + 1
        /\ inflight[c][2].mode = CALLSTACK_KERNEL
        /\ inflight[c][2].pc = "recorded"
        /\ Payload(inflight[c][2]).count = 0

\* The callstack fields attached to the context set.
AttachedFields == {i \in 1 .. Len(ctx_fields) : ctx_fields[i].hooks}

\* C14: resource balance.  After any sequence of attach calls (succeeding,
\* or failing with -EINVAL, -ENOMEM at the field append, -EEXIST, -ENOMEM at
\* kzalloc or at alloc_percpu after kzalloc succeeded) and destroy calls,
\* the live field_data objects and the live per-CPU capture sets are as many
\* as the attached callstack fields, each owned by exactly one of them, and
\* the context set holds no partially installed field.
C14_ResourceBalance ==
    /\ Cardinality(DOMAIN field_data) = Cardinality(AttachedFields)
    /\ Cardinality(DOMAIN percpu_cs) = Cardinality(AttachedFields)
    /\ \A i \in 1 .. Len(ctx_fields) :
          /\ ctx_fields[i].hooks
          /\ ctx_fields[i].name \in {cs_types_name(m) : m \in Modes}
          /\ ctx_fields[i].priv \in DOMAIN field_data
          /\ field_data[ctx_fields[i].priv].cs_percpu \in DOMAIN percpu_cs
          /\ cs_types_name(field_data[ctx_fields[i].priv].mode) = ctx_fields[i].name
    /\ \A i, j \in 1 .. Len(ctx_fields) :
          i # j => /\ ctx_fields[i].priv # ctx_fields[j].priv
                   /\ field_data[ctx_fields[i].priv].cs_percpu
                         # field_data[ctx_fields[j].priv].cs_percpu

\* alloc_percpu failed after kzalloc succeeded while the user stack was being
\* attached next to the kernel stack: -ENOMEM, and one field with its one
\* field_data and capture set is left.
C14_Witness ==
    /\ last_call.op = "attach" /\ last_call.ret = 0 - ENOMEM
    /\ last_call.type = LTTNG_KERNEL_CONTEXT_CALLSTACK_USER /\ CONFIG_X86
    /\ last_call.env.append_ok /\ last_call.env.kz_ok /\ ~last_call.env.pc_ok
    /\ save_func[CALLSTACK_USER]
    /\ Len(ctx_fields) = 1 /\ ctx_fields[1].name = "callstack_kernel"
    /\ Cardinality(DOMAIN field_data) = 1 /\ Cardinality(DOMAIN percpu_cs) = 1

C15_Step ==
    /\ \A m \in Modes : save_func[m] => save_func'[m]
    /\ \A type \in ContextTypes, env \in Envs :
          (AttachStep(type, env) /\ ModeOfType(type) \in Modes) =>
              LET mode == ModeOfType(type)
              IN /\ save_func[mode] =>
                       save_func' = save_func /\ last_call'.ret # 0 - EINVAL
                 /\ (~save_func[mode] /\ ~env.found) =>
                       save_func' = save_func /\ last_call'.ret = 0 - EINVAL
                 /\ (~save_func[mode] /\ env.found) =>
                       save_func'[mode] /\ last_call'.ret # 0 - EINVAL
                 /\ \A o \in Modes \ {mode} : save_func'[o] = save_func[o]

\* C15: one-shot backend binding.  Once cs_types[mode].save_func is
\* non-null no later step writes it; init_type for a bound mode returns 0
\* whatever a symbol lookup would give (the attach does not fail with
\* -EINVAL); a failed lookup leaves the descriptor null, so that a later
\* attach looks the symbol up again and binds it when found; and an attach of
\* one mode leaves the descriptor of the other mode as it is.
C15_OneShotBinding == [][C15_Step]_vars

\* The kernel backend is bound and the user backend is not, and the last
\* attach of the kernel stack got past init_type although a lookup would
\* have failed.
C15_Witness ==
    /\ last_call.op = "attach"
    /\ last_call.type = LTTNG_KERNEL_CONTEXT_CALLSTACK_KERNEL
    /\ ~last_call.env.found
    /\ last_call.ret = 0 - EEXIST
    /\ save_func[CALLSTACK_KERNEL] /\ ~save_func[CALLSTACK_USER]

C16_KernelCaptures ==
    \A c \in CPUs : \A i \in 1 .. Len(inflight[c]) :
        LET fr == inflight[c][i]
        IN (/\ fr.mode = CALLSTACK_KERNEL /\ fr.pc # "reserve"
            /\ fr.depth \in 1 .. RING_BUFFER_MAX_NESTING) =>
              /\ Captured(fr)
              /\ fr.trace.idx = fr.depth - 1
              /\ fr.pc = "recorded" =>
                    fr.rtrace = fr.trace /\ Payload(fr).words = Emitted(c, fr)

\* get_size and record of a KernelStack field leave the guards alone.
C16_Step ==
    \A c \in CPUs :
        (/\ inflight[c] # <<>>
         /\ Len(inflight'[c]) = Len(inflight[c])
         /\ inflight'[c] # inflight[c]
         /\ Top(c).mode = CALLSTACK_KERNEL) =>
            callstack_user_nesting' = callstack_user_nesting

\* C16: for a KernelStack field, get_size and record leave the per-CPU
\* user-unwind guard unchanged on every path, and whether they capture or
\* skip does not depend on the guard: at every depth the safety net admits,
\* the event captures into its slot, also when it is raised while the guard
\* is >= 1, inside a user unwinder call.
C16_KernelIgnoresGuard == [](C16_KernelCaptures) /\ [][C16_Step]_vars

\* A kernel-stack event raised inside the user unwinder was captured and
\* written while the guard was 1.
C16_Witness ==
    \E c \in CPUs :
        /\ Len(inflight[c]) = 2
        /\ inflight[c][1].mode = CALLSTACK_USER /\ inflight[c][1].pc = "unwind"
        /\ callstack_user_nesting[c] = 1
        /\ inflight[c][2].mode = CALLSTACK_KERNEL /\ inflight[c][2].pc = "recorded"
        /\ inflight[c][2].guard0 = 1
        /\ Captured(inflight[c][2])
        /\ Payload(inflight[c][2]).count >= 1
        /\ Payload(inflight[c][2]).words = Emitted(c, inflight[c][2])

\* The events of CPU c that are inside a user unwinder call of get_size.
UserUnwinding(c) ==
    {i \in 1 .. Len(inflight[c]) :
        inflight[c][i].mode = CALLSTACK_USER /\ inflight[c][i].pc = "unwind"}

\* C17: on every CPU the guard is >= 1 during the whole of every user
\* unwinder invocation made by get_size, whatever events are raised and
\* completed inside it, and it never exceeds 1; at most one user unwinder
\* invocation is in progress per CPU, so events raised from inside the user
\* unwinder never start another user-stack capture.
C17_GuardBoundsRecursion ==
    \A c \in CPUs :
        /\ callstack_user_nesting[c] \in 0 .. 1
        /\ UserUnwinding(c) # {} => callstack_user_nesting[c] >= 1
        /\ Cardinality(UserUnwinding(c)) <= 1
        /\ \A i \in UserUnwinding(c) : \A j \in (i + 1) .. Len(inflight[c]) :
              inflight[c][j].mode = CALLSTACK_USER => ~Captured(inflight[c][j])

\* A user-stack event raised inside the user unwinder has been written
\* without a capture; the outer unwinder call is still in progress and the
\* guard is 1.
C17_Witness ==
    \E c \in CPUs :
        /\ Len(inflight[c]) = 2
        /\ UserUnwinding(c) = {1}
        /\ inflight[c][2].mode = CALLSTACK_USER /\ inflight[c][2].pc = "recorded"
        /\ ~Captured(inflight[c][2])
        /\ callstack_user_nesting[c] = 1

C19_SlotInArray ==
    \A c \in CPUs : \A i \in 1 .. Len(inflight[c]) :
        LET fr == inflight[c][i]
        IN fr.pc = "selected" =>
              \/ fr.trace = NullTrace
              \/ /\ fr.trace.cs = field_data[fr.priv].cs_percpu
                 /\ fr.trace.cpu = c
                 /\ fr.trace.idx \in 0 .. (RING_BUFFER_MAX_NESTING - 1)

\* C19, amended: for every value >= 1 of the per-CPU ring-buffer nesting
\* counter (what lib_ring_buffer_get_cpu leaves while an event is emitted),
\* stack_trace_context returns no slot or the slot dispatch[nesting - 1],
\* whose index lies in 0 .. RING_BUFFER_MAX_NESTING - 1 of the dispatch array
\* of the CPU.  The safety net bounds the index from above only: for the
\* value 0 the index is -1 unless the guard stops the selection.
C19_SlotInArrayFromOne ==
    \A c \in CPUs : \A i \in 1 .. Len(inflight[c]) :
        LET fr == inflight[c][i]
        IN /\ (fr.pc = "selected" /\ fr.depth >= 1) =>
                 \/ fr.trace = NullTrace
                 \/ /\ fr.trace.cs = field_data[fr.priv].cs_percpu
                    /\ fr.trace.cpu = c
                    /\ fr.trace.idx = fr.depth - 1
                    /\ fr.trace.idx \in 0 .. (RING_BUFFER_MAX_NESTING - 1)
           /\ (fr.pc = "selected" /\ fr.depth = 0) =>
                 \/ fr.trace = NullTrace /\ fr.mode = CALLSTACK_USER /\ fr.guard0 >= 1
                 \/ fr.trace.idx = 0 - 1

\* The selection at the two sides of the safety net: the last slot at
\* nesting RING_BUFFER_MAX_NESTING on one CPU, no slot one level deeper on
\* another.
C19_Witness ==
    \E c, d \in CPUs :
        /\ inflight[c] # <<>> /\ inflight[d] # <<>>
        /\ Top(c).pc = "selected" /\ Top(d).pc = "selected"
        /\ Top(c).depth = RING_BUFFER_MAX_NESTING
        /\ Top(c).trace.cs # NULL /\ Top(c).trace.idx = RING_BUFFER_MAX_NESTING - 1
        /\ Top(d).depth = RING_BUFFER_MAX_NESTING + 1
        /\ Top(d).mode = CALLSTACK_KERNEL
        /\ Top(d).trace = NullTrace

\* C20: from attach until destroy every capture slot of every possible CPU
\* keeps max_entries = MAX_ENTRIES and its entries pointer wired to its own
\* inline array, whatever get_size and record do; with a backend that
\* respects max_entries the slot length stays within 0 .. MAX_ENTRIES after
\* every get_size and nothing is stored past entries[MAX_ENTRIES - 1]; the
\* emitted count prefix never exceeds MAX_ENTRIES + 1 and record reads no
\* more than the MAX_ENTRIES entries of the slot.
C20_SlotCapacity ==
    /\ \A f \in 1 .. Len(ctx_fields) :
          /\ ctx_fields[f].priv \in DOMAIN field_data
          /\ field_data[ctx_fields[f].priv].cs_percpu \in DOMAIN percpu_cs
    /\ \A a \in DOMAIN percpu_cs :
          /\ DOMAIN percpu_cs[a] = CPUs
          /\ \A c \in CPUs :
                /\ DOMAIN percpu_cs[a][c] = 0 .. (RING_BUFFER_MAX_NESTING - 1)
                /\ \A i \in 0 .. (RING_BUFFER_MAX_NESTING - 1) :
                      LET slot == percpu_cs[a][c][i]
                      IN /\ slot.max_entries = MAX_ENTRIES
                         /\ slot.wired
                         /\ slot.nr_entries \in 0 .. MAX_ENTRIES
                         /\ Len(slot.entries) <= MAX_ENTRIES
    /\ \A c \in CPUs : \A i \in 1 .. Len(inflight[c]) :
          LET fr == inflight[c][i]
          IN fr.pc = "recorded" =>
                /\ Payload(fr).ok
                /\ Payload(fr).count <= MAX_ENTRIES + 1
                /\ Captured(fr) =>
                      entries_len(Deref(fr.rtrace)) <= sizeof_unsigned_long * MAX_ENTRIES

\* A call chain that fills the slot was captured in the deepest slot: the
\* slot is full, still has its capacity, and the count written is
\* MAX_ENTRIES + 1.
C20_Witness ==
    \E c \in CPUs : \E i \in 1 .. Len(inflight[c]) :
        LET fr == inflight[c][i]
        IN /\ fr.pc = "recorded" /\ Captured(fr)
           /\ fr.trace.idx = RING_BUFFER_MAX_NESTING - 1
           /\ fr.chain.frames = MAX_ENTRIES
           /\ Deref(fr.trace).nr_entries = MAX_ENTRIES
           /\ Deref(fr.trace).max_entries = MAX_ENTRIES
           /\ Len(Deref(fr.trace).entries) = MAX_ENTRIES
           /\ Payload(fr).count = MAX_ENTRIES + 1

====
